---------------------------- MODULE Spec2Model ----------------------------
(***************************************************************************)
(* A model of backend/main.py: the chat turn state machine (chat,          *)
(* process_with_history), the prompt composer (build_conversation_prompt), *)
(* the directive parser (extract_json_from_response), the query executor   *)
(* (execute_dynamodb_query) and the in-memory session store.               *)
(*                                                                         *)
(* Text is a sequence of tokens, a JSON value is a tagged record; both     *)
(* have a kind k and a payload: a for a string, n for a number, v for a    *)
(* sequence, so that two records with different payload types never have   *)
(* the same fields.  Python's re.search, json.loads, json.dumps and        *)
(* str.strip are modelled on token sequences.                              *)
(***************************************************************************)
EXTENDS Integers, Sequences, FiniteSets, TLC

VARIABLES
    conversations,  \* main.py:130  conversation id -> list of Message
    pc,             \* where the one running chat handler stands
    turn,           \* the running handler's locals
    last,           \* the last operation that returned, and what it returned
    nturns,         \* chat requests received so far
    cfg,            \* main.py:125-127 and the Message validator's build
    arg,            \* the argument of a function called on its own (SpecParse, ...)
    ret             \* its return value

vars == <<conversations, pc, turn, last, nturns, cfg, arg, ret>>

(***************************************************************************)
(* Tokens of a text.  A string literal token carries its decoded content   *)
(* (itself a text); "text" is a run of characters holding no brace,        *)
(* bracket, colon, comma, quote, fence or white space.                  *)
(***************************************************************************)
P(c)      == [k |-> "p", a |-> c]
WS        == [k |-> "ws", a |-> " "]
FENCE     == [k |-> "fence", a |-> "fence"]   \* three backticks
Txt(s)    == [k |-> "text", a |-> s]
Lit(t)    == [k |-> "lit", v |-> t]
NumTok(n) == [k |-> "num", n |-> n]
Kw(s)     == [k |-> "kw", a |-> s]

\* The text of a Python string constant without white space at either end.
S(s) == <<Txt(s)>>

\* Body applied to the value of x, x evaluated once (a local variable)
Let(x, Body(_)) == CHOOSE y \in {Body(v) : v \in {x}} : TRUE

(***************************************************************************)
(* JSON values (Python: None, int, bool, str, list, dict).  A dict is the  *)
(* sequence of its (key, value) pairs in insertion order.                  *)
(***************************************************************************)
JNull      == [k |-> "null", v |-> <<>>]
JNum(n)    == [k |-> "num", n |-> n]
JBool(s)   == [k |-> "bool", a |-> s]
JStr(t)    == [k |-> "str", v |-> t]
JList(s)   == [k |-> "list", v |-> s]
JObj(prs)  == [k |-> "obj", v |-> prs]
Pair(a, b) == [key |-> a, val |-> b]

IsStr(x)  == x.k = "str"
IsDict(x) == x.k = "obj"

\* dict: key in d
HasKey(d, key) == \E i \in 1..Len(d.v) : d.v[i].key = key

\* dict.get(key, default)
Get(d, key, default) ==
    IF HasKey(d, key)
    THEN d.v[CHOOSE i \in 1..Len(d.v) : d.v[i].key = key].val
    ELSE default

\* d[key] = val: an existing key keeps its place, a new one goes last
DictSet(d, key, val) ==
    IF HasKey(d, key)
    THEN JObj([i \in 1..Len(d.v) |->
                 IF d.v[i].key = key THEN Pair(key, val) ELSE d.v[i]])
    ELSE JObj(Append(d.v, Pair(key, val)))

Keys(d) == {d.v[i].key : i \in 1..Len(d.v)}

(***************************************************************************)
(* json.loads on a token sequence: a recursive descent parser of           *)
(*   value  ::= literal | number | null | true | false | object | array    *)
(*   object ::= { } | { member (, member)* }     member ::= literal : value*)
(*   array  ::= [ ] | [ value (, value)* ]                                 *)
(* with white space allowed between tokens.  A result is                   *)
(* [ok, val, next]: next is the index after the value.                     *)
(***************************************************************************)
ParseFail == [ok |-> FALSE, val |-> JNull, next |-> 0]
ParseOk(val, next) == [ok |-> TRUE, val |-> val, next |-> next]

\* the first index >= i that holds no white space (Len + 1 when none does)
SkipWs(toks, i) ==
    LET stop == {j \in i..Len(toks) : toks[j].k # "ws"}
    IN  IF stop = {} THEN IF i > Len(toks) THEN i ELSE Len(toks) + 1
        ELSE CHOOSE j \in stop : \A m \in stop : j <= m

At(toks, i, tok) == i <= Len(toks) /\ toks[i] = tok

RECURSIVE ParseValue(_, _)
RECURSIVE ParseMembers(_, _, _)
RECURSIVE ParseElements(_, _, _)

\* after a member's or an element's value: the closing token ends the
\* container, a comma leads to the next member or element
AfterValue(toks, r, d, close, More(_, _, _)) ==
    Let(SkipWs(toks, r.next), LAMBDA e :
        IF At(toks, e, P(close)) THEN ParseOk(d, e + 1)
        ELSE IF At(toks, e, P(","))
        THEN Let(SkipWs(toks, e + 1), LAMBDA n : More(toks, n, d))
        ELSE ParseFail)

ParseMembers(toks, i, acc) ==
    IF ~(i <= Len(toks) /\ toks[i].k = "lit") THEN ParseFail
    ELSE Let(SkipWs(toks, i + 1), LAMBDA c :
         IF ~At(toks, c, P(":")) THEN ParseFail
         ELSE Let(ParseValue(toks, SkipWs(toks, c + 1)), LAMBDA r :
              IF ~r.ok THEN ParseFail
              ELSE Let(DictSet(acc, toks[i].v, r.val), LAMBDA d :
                   AfterValue(toks, r, d, "}", ParseMembers))))

ParseElements(toks, i, acc) ==
    Let(ParseValue(toks, i), LAMBDA r :
        IF ~r.ok THEN ParseFail
        ELSE Let(JList(Append(acc.v, r.val)), LAMBDA l :
             AfterValue(toks, r, l, "]", ParseElements)))

ParseValue(toks, i) ==
    IF i > Len(toks) THEN ParseFail
    ELSE LET t == toks[i]
         IN  CASE t.k = "lit" -> ParseOk(JStr(t.v), i + 1)
               [] t.k = "num" -> ParseOk(JNum(t.n), i + 1)
               [] t.k = "kw" ->
                    IF t.a = "null" THEN ParseOk(JNull, i + 1)
                    ELSE ParseOk(JBool(t.a), i + 1)
               [] t = P("{") ->
                    Let(SkipWs(toks, i + 1), LAMBDA j :
                        IF At(toks, j, P("}")) THEN ParseOk(JObj(<<>>), j + 1)
                        ELSE ParseMembers(toks, j, JObj(<<>>)))
               [] t = P("[") ->
                    Let(SkipWs(toks, i + 1), LAMBDA j :
                        IF At(toks, j, P("]")) THEN ParseOk(JList(<<>>), j + 1)
                        ELSE ParseElements(toks, j, JList(<<>>)))
               [] OTHER -> ParseFail

\* json.loads(s): [ok, val]; ~ok is json.JSONDecodeError (also on extra data)
json_loads(s) ==
    Let(s, LAMBDA toks :
    Let(ParseValue(toks, SkipWs(toks, 1)), LAMBDA r :
        IF r.ok /\ SkipWs(toks, r.next) > Len(toks)
        THEN [ok |-> TRUE, val |-> r.val]
        ELSE [ok |-> FALSE, val |-> JNull]))

(***************************************************************************)
(* json.dumps: the text of a JSON value, ", " and ": " as separators.      *)
(***************************************************************************)
RECURSIVE json_dumps(_)
RECURSIVE DumpPairs(_, _)
RECURSIVE DumpItems(_, _)

DumpPairs(prs, i) ==
    IF i > Len(prs) THEN <<>>
    ELSE (IF i > 1 THEN <<P(","), WS>> ELSE <<>>)
         \o <<Lit(prs[i].key), P(":"), WS>> \o json_dumps(prs[i].val)
         \o DumpPairs(prs, i + 1)

DumpItems(xs, i) ==
    IF i > Len(xs) THEN <<>>
    ELSE (IF i > 1 THEN <<P(","), WS>> ELSE <<>>)
         \o json_dumps(xs[i]) \o DumpItems(xs, i + 1)

json_dumps(x) ==
    CASE x.k = "null" -> <<Kw("null")>>
      [] x.k = "bool" -> <<Kw(x.a)>>
      [] x.k = "num"  -> <<NumTok(x.n)>>
      [] x.k = "str"  -> <<Lit(x.v)>>
      [] x.k = "list" -> <<P("[")>> \o DumpItems(x.v, 1) \o <<P("]")>>
      [] x.k = "obj"  -> <<P("{")>> \o DumpPairs(x.v, 1) \o <<P("}")>>

\* str.strip(): white space dropped at both ends
strip(toks) ==
    LET keep == {j \in 1..Len(toks) : toks[j].k # "ws"}
    IN  IF keep = {} THEN <<>>
        ELSE SubSeq(toks,
                    CHOOSE j \in keep : \A m \in keep : j <= m,
                    CHOOSE j \in keep : \A m \in keep : j >= m)

(***************************************************************************)
(* extract_json_from_response (main.py:452-487).                           *)
(***************************************************************************)
\* re.search(fence (?:json)?\s*(\{.*?\})\s* fence, response, re.DOTALL):
\* the object start a fence at p leads to (0 when it leads to none)
FencedStart(toks, p) ==
    LET a == IF At(toks, p + 1, Txt("json")) THEN SkipWs(toks, p + 2)
             ELSE SkipWs(toks, p + 1)
    IN  IF At(toks, a, P("{")) THEN a ELSE 0

\* the closing braces .*? may stop at: those followed by \s* and a fence
FencedEnds(toks, a) ==
    {b \in a..Len(toks) : toks[b] = P("}") /\ At(toks, SkipWs(toks, b + 1), FENCE)}

FencedMatches(toks) ==
    {p \in 1..Len(toks) :
        /\ toks[p] = FENCE
        /\ FencedStart(toks, p) # 0
        /\ FencedEnds(toks, FencedStart(toks, p)) # {}}

\* group(1) of the leftmost match, its .*? as short as can be
FencedGroup(toks) ==
    LET ps == FencedMatches(toks)
        p  == CHOOSE q \in ps : \A m \in ps : q <= m
        a  == FencedStart(toks, p)
        bs == FencedEnds(toks, a)
    IN  SubSeq(toks, a, CHOOSE b \in bs : \A m \in bs : b <= m)

\* re.search(r'\{.*\}', response, re.DOTALL): first brace to last closing brace
RawOpens(toks)  == {a \in 1..Len(toks) : toks[a] = P("{")}
RawCloses(toks) == {b \in 1..Len(toks) : toks[b] = P("}")}
RawMatch(toks) ==
    \E a \in RawOpens(toks) : \E b \in RawCloses(toks) : a < b
RawGroup(toks) ==
    SubSeq(toks,
           CHOOSE a \in RawOpens(toks) : \A m \in RawOpens(toks) : a <= m,
           CHOOSE b \in RawCloses(toks) : \A m \in RawCloses(toks) : b >= m)

NaturalLanguage(text) ==
    JObj(<<Pair(S("response_type"), JStr(S("NATURAL_LANGUAGE"))),
           Pair(S("content"), JStr(text))>>)

\* an extraction whose fallback wraps the raw text as it came
extract_json_untrimmed(llm_response) ==
    Let(llm_response, LAMBDA response :
    Let(FencedMatches(response) # {}, LAMBDA fenced :
        IF ~fenced /\ ~RawMatch(response)
        THEN NaturalLanguage(response)
        ELSE Let(json_loads(IF fenced THEN FencedGroup(response)
                            ELSE RawGroup(response)), LAMBDA parsed :
                 IF ~parsed.ok THEN NaturalLanguage(response)
                 ELSE IF ~HasKey(parsed.val, S("content"))
                 THEN DictSet(parsed.val, S("content"), JStr(<<>>))
                 ELSE parsed.val)))

extract_json_from_response(llm_response) ==
    Let(llm_response, LAMBDA response :
    Let(FencedMatches(response) # {}, LAMBDA fenced :
        IF ~fenced /\ ~RawMatch(response)
        THEN NaturalLanguage(strip(response))
        ELSE Let(json_loads(IF fenced THEN FencedGroup(response)
                            ELSE RawGroup(response)), LAMBDA parsed :
                 IF ~parsed.ok THEN NaturalLanguage(strip(response))
                 ELSE IF ~HasKey(parsed.val, S("content"))
                 THEN DictSet(parsed.val, S("content"), JStr(<<>>))
                 ELSE parsed.val)))


(***************************************************************************)
(* Message (main.py:132-137) without its timestamp; data is JNull or the   *)
(* dict attached as query results.                                         *)
(***************************************************************************)
Message(role, content, data) == [role |-> role, content |-> content, data |-> data]

PromptTurn(role, content) == [role |-> role, content |-> content]

\* system_context (main.py:372-387): SYSTEM_PROMPT, the schema, the table
\* instruction and the instructions, as one block of text
SYSTEM_CONTEXT == <<[k |-> "ctx", a |-> "system_context"]>>

SYSTEM_INFO == <<Txt("[SYSTEM INFO]"), WS>>

\* messages[-1]["content"] += extra
AppendToLast(messages, extra) ==
    [messages EXCEPT ![Len(messages)].content = @ \o extra]

\* a pass of the loop that emits every message as a turn of its own role
PromptStep_own_turns(messages, msg) ==
    Append(messages, PromptTurn(msg.role, msg.content))

(***************************************************************************)
(* build_conversation_prompt (main.py:368-450): one pass of the for loop   *)
(* (main.py:396-437), then the loop from message i on, then the function.  *)
(***************************************************************************)
PromptStep(messages, msg) ==
    LET lastRole == IF messages = <<>> THEN "none"
                    ELSE messages[Len(messages)].role
    IN  CASE msg.role = "user" ->
               IF lastRole = "user"
               THEN AppendToLast(messages, <<WS>> \o msg.content)
               ELSE IF messages = <<>>
               THEN <<PromptTurn("user",
                        SYSTEM_CONTEXT \o <<WS, Txt("---"), WS>> \o msg.content)>>
               ELSE Append(messages, PromptTurn("user", msg.content))
          [] msg.role = "system" ->
               IF lastRole = "user"
               THEN AppendToLast(messages, <<WS>> \o SYSTEM_INFO \o msg.content)
               ELSE IF lastRole = "assistant"
               THEN Append(messages, PromptTurn("user", SYSTEM_INFO \o msg.content))
               ELSE <<PromptTurn("user",
                        SYSTEM_CONTEXT \o <<WS>> \o SYSTEM_INFO \o msg.content)>>
          [] msg.role = "assistant" ->
               Append(messages, PromptTurn("assistant", msg.content))
          [] OTHER -> messages

RECURSIVE PromptLoop(_, _, _)
PromptLoop(history, i, messages) ==
    IF i > Len(history) THEN messages
    ELSE Let(PromptStep(messages, history[i]), LAMBDA m :
             PromptLoop(history, i + 1, m))

build_conversation_prompt(transcript) ==
    Let(transcript, LAMBDA history :
    Let(PromptLoop(history, 1, <<>>), LAMBDA messages :
        IF messages = <<>> THEN <<PromptTurn("user", SYSTEM_CONTEXT)>>
        ELSE messages))

(***************************************************************************)
(* Exceptions: [type, msg]; str(e) is msg.                                 *)
(***************************************************************************)
Exc(type, msg) == [type |-> type, msg |-> msg]

\* a truth test no value fails
Falsy_never(x) == FALSE

\* Python truth value of a JSON value: not x
Falsy(x) ==
    \/ x.k = "null"
    \/ x.k = "bool" /\ x.a = "false"
    \/ x.k = "num" /\ x.n = 0
    \/ x.k \in {"str", "list", "obj"} /\ x.v = <<>>

Names(set) == {S(n) : n \in set}

\* VALID_PARAMS.get(operation, set()) (main.py:498-521, 533)
VALID_PARAMS(operation) ==
    CASE operation = JStr(S("Query")) ->
           Names({"TableName", "IndexName", "Select", "AttributesToGet", "Limit",
                  "ConsistentRead", "KeyConditions", "QueryFilter",
                  "ConditionalOperator", "ScanIndexForward", "ExclusiveStartKey",
                  "ReturnConsumedCapacity", "ProjectionExpression",
                  "FilterExpression", "KeyConditionExpression",
                  "ExpressionAttributeNames", "ExpressionAttributeValues"})
      [] operation = JStr(S("Scan")) ->
           Names({"TableName", "IndexName", "AttributesToGet", "Limit", "Select",
                  "ScanFilter", "ConditionalOperator", "ExclusiveStartKey",
                  "ReturnConsumedCapacity", "TotalSegments", "Segment",
                  "ProjectionExpression", "FilterExpression",
                  "ExpressionAttributeNames", "ExpressionAttributeValues",
                  "ConsistentRead"})
      [] operation = JStr(S("GetItem")) ->
           Names({"TableName", "Key", "AttributesToGet", "ConsistentRead",
                  "ReturnConsumedCapacity", "ProjectionExpression",
                  "ExpressionAttributeNames"})
      [] operation = JStr(S("BatchGetItem")) ->
           Names({"RequestItems", "ReturnConsumedCapacity"})
      [] OTHER -> {}

\* {k: v for k, v in d.items() if keep(k)}, insertion order kept
RECURSIVE FilterPairs(_, _, _)
FilterPairs(prs, i, keep) ==
    IF i > Len(prs) THEN <<>>
    ELSE (IF prs[i].key \in keep THEN <<prs[i]>> ELSE <<>>)
         \o FilterPairs(prs, i + 1, keep)

\* the dynamodb method each operation dispatches to (main.py:552-562)
StoreMethod(operation) ==
    CASE operation = JStr(S("Query")) -> "query"
      [] operation = JStr(S("Scan")) -> "scan"
      [] operation = JStr(S("GetItem")) -> "get_item"
      [] operation = JStr(S("BatchGetItem")) -> "batch_get_item"
      [] OTHER -> "none"

NoCall == [method |-> "none", kwargs |-> JObj(<<>>)]
\* a raise that goes on to the store all the same
Raise_as_call(e) ==
    [raised |-> FALSE, exc |-> e,
     call |-> [method |-> "scan", kwargs |-> JObj(<<>>)]]
Raise(e) == [raised |-> TRUE, exc |-> e, call |-> NoCall]
Dispatch(method, kwargs) ==
    [raised |-> FALSE, exc |-> Exc("none", <<>>),
     call |-> [method |-> method, kwargs |-> kwargs]]

\* execute_dynamodb_query without its allow-list: every field but
\* operation goes to the store
exec_prepare_unfiltered(query) ==
    Let(Get(query, S("operation"), JStr(S("Query"))), LAMBDA operation :
    Let(Get(query, S("TableName"), JNull), LAMBDA table_name :
    Let(JObj(FilterPairs(query.v, 1, Keys(query) \ {S("operation")})),
        LAMBDA params :
        IF Falsy(table_name) /\ operation # JStr(S("BatchGetItem"))
        THEN Raise(Exc("ValueError", S("TableName is required in query")))
        ELSE IF StoreMethod(operation) = "none"
        THEN Raise(Exc("ValueError", S("Unsupported operation")))
        ELSE Dispatch(StoreMethod(operation), params))))

(***************************************************************************)
(* execute_dynamodb_query up to its call of the store (main.py:494-564):   *)
(* the exception raised on the way, or the call made.  query is a dict.    *)
(***************************************************************************)
exec_prepare(query) ==
    Let(Get(query, S("operation"), JStr(S("Query"))), LAMBDA operation :
    Let(Get(query, S("TableName"), JNull), LAMBDA table_name :
    Let(FilterPairs(query.v, 1, Keys(query) \ {S("operation")}), LAMBDA all_params :
    Let(JObj(FilterPairs(all_params, 1, VALID_PARAMS(operation))), LAMBDA params :
        IF Falsy(table_name) /\ operation # JStr(S("BatchGetItem"))
        THEN Raise(Exc("ValueError", S("TableName is required in query")))
        ELSE IF operation.k \in {"list", "obj"}
        THEN Raise(Exc("TypeError", S("unhashable type")))
        ELSE IF operation \in {JStr(S("Query")), JStr(S("Scan")), JStr(S("GetItem"))}
        THEN Dispatch(StoreMethod(operation), params)
        ELSE IF operation = JStr(S("BatchGetItem"))
        THEN IF ~HasKey(params, S("RequestItems"))
             THEN Raise(Exc("ValueError", S("BatchGetItem requires RequestItems")))
             ELSE Dispatch(StoreMethod(operation),
                           JObj(<<Pair(S("RequestItems"),
                                       Get(params, S("RequestItems"), JNull))>>))
        ELSE Raise(Exc("ValueError", S("Unsupported operation")))))))

\* the except branch of execute_dynamodb_query (main.py:569-594)
error_envelope(query, e, error_viewing) ==
    LET error_response ==
            JObj(<<Pair(S("Error"), JStr(e.msg)),
                   Pair(S("Message"), JStr(S("Failed to execute DynamoDB query"))),
                   Pair(S("_generated_query"), query)>>)
    IN  IF error_viewing
        THEN DictSet(error_response, S("query_error"),
                JObj(<<Pair(S("exception_type"), JStr(S(e.type))),
                       Pair(S("exception_message"), JStr(e.msg)),
                       Pair(S("traceback"), JStr(S("Traceback"))),
                       Pair(S("operation"),
                            Get(query, S("operation"), JStr(S("Query")))),
                       Pair(S("table_name"), Get(query, S("TableName"), JNull))>>))
        ELSE error_response

(***************************************************************************)
(* The backing store (boto3's dynamodb client) is outside the program: a   *)
(* call returns one of its responses or raises one of its faults.          *)
(***************************************************************************)
Item(id) == JObj(<<Pair(S("id"), JObj(<<Pair(S("S"), JStr(S(id)))>>))>>)

StoreResponses ==
    { JObj(<<Pair(S("Items"), JList(<<>>)), Pair(S("Count"), JNum(0))>>),
      JObj(<<Pair(S("Items"), JList(<<Item("a")>>)), Pair(S("Count"), JNum(1))>>),
      JObj(<<Pair(S("Items"), JList(<<Item("a"), Item("b")>>)),
             Pair(S("Count"), JNum(2))>>),
      JObj(<<Pair(S("Item"), Item("a"))>>),
      JObj(<<Pair(S("Responses"),
                  JObj(<<Pair(S("orders"), JList(<<Item("a")>>))>>))>>) }

\* the shape of a response goes with the method called: query and scan
\* answer with Items and Count, get_item with Item, batch_get_item with
\* Responses
Fits(method, response) ==
    CASE method \in {"query", "scan"} -> HasKey(response, S("Items"))
      [] method = "get_item" -> HasKey(response, S("Item"))
      [] method = "batch_get_item" -> HasKey(response, S("Responses"))
      [] OTHER -> FALSE

StoreFaults ==
    { Exc("ClientError", S("AccessDeniedException")),
      Exc("ParamValidationError", S("Parameter validation failed")) }

(***************************************************************************)
(* process_with_history (main.py:242-350), cut where it waits for the      *)
(* oracle or the store.  Each piece ends in an outcome: a return to chat,  *)
(* an exception raised to chat, or the next outbound call.                 *)
(***************************************************************************)
NoExc == Exc("none", <<>>)

Return(final_response, query_data) ==
    [kind |-> "return", final_response |-> final_response,
     query_data |-> query_data, exc |-> NoExc, call |-> NoCall]
Raised(e) ==
    [kind |-> "raise", final_response |-> JNull, query_data |-> JNull,
     exc |-> e, call |-> NoCall]
CallStore(call) ==
    [kind |-> "store", final_response |-> JNull, query_data |-> JNull,
     exc |-> NoExc, call |-> call]
CallOracle ==
    [kind |-> "oracle", final_response |-> JNull, query_data |-> JNull,
     exc |-> NoExc, call |-> NoCall]

APOLOGY_PARSE ==
    S("I encountered an error parsing the database query. Please try rephrasing your question.")
APOLOGY_FORMAT ==
    S("I encountered an error with the database query format. Please try rephrasing your question.")
APOLOGY_REPHRASE ==
    S("I encountered an error while trying to execute the database query I generated. Please try rephrasing your question, and I'll attempt to answer it again.")

\* main.py:267-277: [ok, query] with the query taken from content, or
\* [~ok, text] with the text returned instead
coerce_query(content) ==
    IF IsStr(content)
    THEN Let(json_loads(content.v), LAMBDA d :
             IF d.ok THEN [ok |-> TRUE, query |-> d.val, text |-> <<>>]
             ELSE [ok |-> FALSE, query |-> JNull, text |-> APOLOGY_PARSE])
    ELSE IF IsDict(content)
    THEN [ok |-> TRUE, query |-> content, text |-> <<>>]
    ELSE [ok |-> FALSE, query |-> JNull, text |-> APOLOGY_FORMAT]

\* a failed lookup that ends the turn with the apology alone
lookup_failed_bare(query_results) ==
    Return(JStr(APOLOGY_REPHRASE), JNull)

\* main.py:286-297: the executor's failure envelope ends the turn
lookup_failed(query_results) ==
    Return(JStr(APOLOGY_REPHRASE), query_results)

\* main.py:258-283 and 334-343: from the first raw response to the first
\* return, raise or store call.  query.get at main.py:494 stands outside the
\* executor's try: a query that is no dict raises AttributeError.
first_pass(llm_response, error_viewing) ==
    Let(extract_json_from_response(llm_response), LAMBDA response_obj :
    Let(Get(response_obj, S("response_type"), JStr(S("NATURAL_LANGUAGE"))),
        LAMBDA response_type :
    Let(Get(response_obj, S("content"), JNull), LAMBDA content :
    Let([directive |-> response_obj, coerced |-> FALSE,
         generated_query |-> JNull, results |-> JNull, out |-> CallOracle],
        LAMBDA none :
        IF response_type = JStr(S("QUERY"))
        THEN Let(coerce_query(content), LAMBDA c :
             IF ~c.ok
             THEN [none EXCEPT !.out = Return(JStr(c.text), JNull)]
             ELSE Let([none EXCEPT !.coerced = TRUE, !.generated_query = c.query],
                      LAMBDA q :
                  IF ~IsDict(c.query)
                  THEN [q EXCEPT !.out =
                          Raised(Exc("AttributeError",
                                     S("object has no attribute 'get'")))]
                  ELSE Let(exec_prepare(c.query), LAMBDA p :
                       IF p.raised
                       THEN Let(error_envelope(c.query, p.exc, error_viewing),
                                LAMBDA env :
                                [q EXCEPT !.results = env,
                                          !.out = lookup_failed(env)])
                       ELSE [q EXCEPT !.out = CallStore(p.call)])))
        ELSE IF response_type = JStr(S("NATURAL_LANGUAGE"))
        THEN [none EXCEPT !.out = Return(content, JNull)]
        ELSE [none EXCEPT !.out =
                Return(JStr(IF IsStr(content) THEN content.v
                            ELSE json_dumps(content)), JNull)]))))

\* str(x) in an f-string
py_str(x) ==
    CASE x.k = "str" -> x.v
      [] x.k = "num" -> <<NumTok(x.n)>>
      [] OTHER -> json_dumps(x)

\* main.py:325-326
static_message(query_results) ==
    Let(Get(query_results, S("Count"), JNum(0)), LAMBDA result_count :
        <<Txt("Query executed successfully. Found"), WS>> \o py_str(result_count)
        \o <<WS, Txt(IF result_count # JNum(1) THEN "results." ELSE "result.")>>)

\* main.py:304-308
system_message(query_results) ==
    Message("system", <<Txt("Query Results:"), WS>> \o json_dumps(query_results),
            JNull)

\* a success that is summarized whatever the switch says
store_returned_summarizing(query_results, generated_query, analyze) ==
    IF HasKey(query_results, S("Error")) THEN lookup_failed(query_results)
    ELSE CallOracle

\* main.py:286-332 once the store has answered: the store's response is the
\* executor's return value (main.py:567)
store_returned(query_results, generated_query, analyze) ==
    IF HasKey(query_results, S("Error")) THEN lookup_failed(query_results)
    ELSE IF analyze THEN CallOracle
    ELSE Return(JStr(static_message(query_results)),
                DictSet(query_results, S("_generated_query"), generated_query))

\* main.py:569-594, then 286-297: the store raised
store_raised(e, generated_query, error_viewing) ==
    lookup_failed(error_envelope(generated_query, e, error_viewing))

\* a second pass that hands the store's result on as it came
second_pass_plain(analysis_response, query_results, generated_query) ==
    Return(Get(extract_json_from_response(analysis_response), S("content"),
               JStr(<<>>)),
           query_results)

\* main.py:317-332: from the second raw response to the return
second_pass(analysis_response, query_results, generated_query) ==
    Let(extract_json_from_response(analysis_response), LAMBDA analysis_obj :
    Let(Get(analysis_obj, S("content"), JStr(<<>>)), LAMBDA response_text :
        Return(response_text,
               DictSet(query_results, S("_generated_query"), generated_query))))

(***************************************************************************)
(* chat (main.py:160-240) after process_with_history has returned or       *)
(* raised.                                                                 *)
(***************************************************************************)
\* What Message(content=...) makes of a value for its str field: a str is
\* taken; an int or a bool is turned into text by pydantic 1 and refused by
\* pydantic 2 (the repository pins neither: coerce is the build's choice);
\* anything else is a ValidationError.
message_content(final_response, coerce) ==
    CASE final_response.k = "str" -> [ok |-> TRUE, text |-> final_response.v]
      [] final_response.k = "num" ->
            [ok |-> coerce, text |-> <<NumTok(final_response.n)>>]
      [] final_response.k = "bool" ->
            [ok |-> coerce,
             text |-> S(IF final_response.a = "true" THEN "True" ELSE "False")]
      [] OTHER -> [ok |-> FALSE, text |-> <<>>]

Put(f, key, val) == [x \in DOMAIN f \cup {key} |-> IF x = key THEN val ELSE f[x]]

ERROR_PREFIX == <<Txt("I encountered an error while processing your request:"), WS>>

\* an except branch that answers the caller and records nothing
chat_except_silent(convs, cid, user_message, e) ==
    [conversations |-> convs, response |-> ERROR_PREFIX \o e.msg, exc |-> e]

\* an except branch that takes the lookup results back out of the transcript
chat_except_rollback(convs, cid, user_message, e) ==
    [conversations |->
        Put(convs, cid,
            Append(SelectSeq(IF cid \in DOMAIN convs THEN convs[cid]
                             ELSE <<user_message>>,
                             LAMBDA m : m.role # "system"),
                   Message("assistant", ERROR_PREFIX \o e.msg, JNull))),
     response |-> ERROR_PREFIX \o e.msg, exc |-> e]

\* an except branch that starts the transcript over with the failed turn
chat_except_reset(convs, cid, user_message, e) ==
    [conversations |->
        Put(convs, cid,
            <<user_message, Message("assistant", ERROR_PREFIX \o e.msg, JNull)>>),
     response |-> ERROR_PREFIX \o e.msg, exc |-> e]

\* main.py:215-240: the except branch of chat
chat_except(convs, cid, user_message, e) ==
    Let(ERROR_PREFIX \o e.msg, LAMBDA error_message :
    Let(Message("assistant", error_message, JNull), LAMBDA assistant_msg :
    Let(IF cid \in DOMAIN convs THEN convs[cid] ELSE <<user_message>>, LAMBDA base :
        [conversations |-> Put(convs, cid, Append(base, assistant_msg)),
         response |-> error_message, exc |-> e])))

\* a return that records the assistant message twice
chat_finish_twice(convs, cid, user_message, out, coerce) ==
    Let(Message("assistant",
                IF out.final_response.k = "str" THEN out.final_response.v
                ELSE <<>>, out.query_data), LAMBDA assistant_msg :
        [conversations |->
            Put(convs, cid, convs[cid] \o <<assistant_msg, assistant_msg>>),
         response |-> assistant_msg.content, exc |-> out.exc])

\* main.py:198-213, and 215-240 when something raises on the way
chat_finish(convs, cid, user_message, out, coerce) ==
    Let(message_content(out.final_response, coerce), LAMBDA c :
        IF out.kind = "raise" THEN chat_except(convs, cid, user_message, out.exc)
        ELSE IF ~c.ok
        THEN chat_except(convs, cid, user_message,
                         Exc("ValidationError", S("1 validation error for Message")))
        ELSE IF cid \notin DOMAIN convs
        THEN chat_except(convs, cid, user_message, Exc("KeyError", S(cid)))
        ELSE [conversations |->
                 Put(convs, cid,
                     Append(convs[cid], Message("assistant", c.text, out.query_data))),
              response |-> c.text, exc |-> NoExc])

(***************************************************************************)
(* Specifications of the functions alone: Init draws the argument, the one *)
(* action calls the function.                                              *)
(***************************************************************************)
NotCalled == [called |-> FALSE, val |-> <<>>]
Returned(x) == [called |-> TRUE, val |-> x]

SeqsUpTo(set, n) == UNION {[1..m -> set] : m \in 0..n}

\* the handler state of a specification that runs no handler
NoTurn == [cid |-> "none"]
NoOp == [op |-> "none"]
NoCfg == [LLM_ANALYZE_RESULTS |-> FALSE, ENABLE_ERROR_VIEWING |-> FALSE,
          coerce_numbers |-> FALSE]

HandlerIdle ==
    /\ conversations = <<>>
    /\ pc = "idle"
    /\ turn = NoTurn
    /\ last = NoOp
    /\ nturns = 0
    /\ cfg = NoCfg

HandlerUnchanged == UNCHANGED <<conversations, pc, turn, last, nturns, cfg>>

Call(f_of_arg) ==
    /\ ~ret.called
    /\ ret' = Returned(f_of_arg)
    /\ UNCHANGED arg
    /\ HandlerUnchanged

\* ---- extract_json_from_response on its own
MaxTextLen == 5

ParseAlphabet ==
    {FENCE, WS, P("{"), P("}"), P(":"), Lit(S("content")), Kw("null"), Txt("hi")}

Roles == {"user", "assistant", "system"}

\* fenced and tagged, with a QUERY object as content
FencedQuery ==
    <<Txt("Sure"), WS, FENCE, Txt("json"), WS, P("{"),
      Lit(S("response_type")), P(":"), WS, Lit(S("QUERY")), P(","), WS,
      Lit(S("content")), P(":"), WS,
      P("{"), Lit(S("operation")), P(":"), Lit(S("Scan")), P(","),
              Lit(S("TableName")), P(":"), Lit(S("orders")), P("}"),
      P("}"), WS, FENCE, WS, Txt("done")>>

\* two fenced blocks: the first is the match
TwoFences ==
    <<FENCE, P("{"), Lit(S("content")), P(":"), Lit(S("first")), P("}"), FENCE,
      WS, FENCE, P("{"), Lit(S("content")), P(":"), Lit(S("second")), P("}"), FENCE>>

\* two objects outside any fence: the span runs from the first { to the last }
TwoObjects ==
    <<P("{"), Lit(S("content")), P(":"), Lit(S("a")), P("}"), WS, Txt("and"), WS,
      P("{"), Lit(S("content")), P(":"), Lit(S("b")), P("}")>>

SampleResponses ==
    { FencedQuery, TwoFences, TwoObjects,
      <<WS, Txt("What"), WS, Txt("weather"), WS>>,
      <<P("{"), Lit(S("response_type")), P(":"), Lit(S("NATURAL_LANGUAGE")), P("}")>>,
      <<P("{"), Lit(S("response_type")), P(":"), Lit(S("NATURAL_LANGUAGE")), P(","),
        Lit(S("content")), P(":"), Kw("null"), P("}")>>,
      <<P("{"), Lit(S("content")), P(":"), P("["), NumTok(1), P(","), NumTok(2), P("]"),
        P(","), Lit(S("content")), P(":"), NumTok(7), P("}")>>,
      <<P("{"), Lit(S("content")), P(":"), Lit(S("x")), P(","), P("}")>> }

ResponseTexts == SampleResponses \cup SeqsUpTo(ParseAlphabet, MaxTextLen)

InitParse ==
    /\ arg \in ResponseTexts
    /\ ret = NotCalled
    /\ HandlerIdle

Extract == Call(extract_json_from_response(arg))

NextParse == Extract

SpecParse == InitParse /\ [][NextParse]_vars

\* ---- build_conversation_prompt on its own
MaxHistory == 4

\* every role sequence; the i-th message's text is the number i
Histories ==
    {[i \in DOMAIN rs |-> Message(rs[i], <<NumTok(i)>>, JNull)] :
        rs \in SeqsUpTo(Roles, MaxHistory)}

InitPrompt ==
    /\ arg \in Histories
    /\ ret = NotCalled
    /\ HandlerIdle

Compose == Call(build_conversation_prompt(arg))

NextPrompt == Compose

SpecPrompt == InitPrompt /\ [][NextPrompt]_vars

\* ---- execute_dynamodb_query on its own
FieldPool ==
    <<Pair(S("Key"), Item("a")),
      Pair(S("RequestItems"), JObj(<<Pair(S("orders"), JObj(<<>>))>>)),
      Pair(S("ReturnConsumedCapacity"), JStr(S("TOTAL"))),
      Pair(S("Limit"), JNum(5)),
      Pair(S("ScanFilter"), JObj(<<>>)),
      Pair(S("Bogus"), JStr(S("x")))>>

PoolKeys == {FieldPool[i].key : i \in 1..Len(FieldPool)}

OperationFields ==
    { <<>> } \cup
    { <<Pair(S("operation"), op)>> :
        op \in {JStr(S("Query")), JStr(S("Scan")), JStr(S("GetItem")),
                JStr(S("BatchGetItem")), JStr(S("DeleteItem")),
                JList(<<JStr(S("Scan"))>>)} }

TableFields ==
    { <<>>, <<Pair(S("TableName"), JStr(S("orders")))>>,
      <<Pair(S("TableName"), JStr(<<>>))>> }

Queries ==
    { JObj(o \o t \o FilterPairs(FieldPool, 1, ks)) :
        o \in OperationFields, t \in TableFields, ks \in SUBSET PoolKeys }

InitExec ==
    /\ arg \in Queries
    /\ ret = NotCalled
    /\ conversations = <<>>
    /\ pc = "idle"
    /\ turn = NoTurn
    /\ last = NoOp
    /\ nturns = 0
    /\ cfg \in {[NoCfg EXCEPT !.ENABLE_ERROR_VIEWING = b] : b \in BOOLEAN}

\* the call of execute_dynamodb_query, up to its return or its store call
ExecCall ==
    /\ pc = "idle" /\ ~ret.called
    /\ \E p \in {exec_prepare(arg)} :
           IF p.raised
           THEN /\ ret' = Returned(error_envelope(arg, p.exc,
                                                  cfg.ENABLE_ERROR_VIEWING))
                /\ UNCHANGED <<pc, turn>>
           ELSE /\ pc' = "store"
                /\ turn' = [cid |-> "none", call |-> p.call]
                /\ UNCHANGED ret
    /\ UNCHANGED <<conversations, last, nturns, cfg, arg>>

ExecStoreReturn ==
    /\ pc = "store"
    /\ \E response \in {r \in StoreResponses : Fits(turn.call.method, r)} :
          ret' = Returned(response)
    /\ pc' = "idle"
    /\ UNCHANGED <<conversations, turn, last, nturns, cfg, arg>>

ExecStoreFault ==
    /\ pc = "store"
    /\ \E e \in StoreFaults :
          ret' = Returned(error_envelope(arg, e, cfg.ENABLE_ERROR_VIEWING))
    /\ pc' = "idle"
    /\ UNCHANGED <<conversations, turn, last, nturns, cfg, arg>>

NextExec == ExecCall \/ ExecStoreReturn \/ ExecStoreFault

SpecExec == InitExec /\ [][NextExec]_vars

(***************************************************************************)
(* The service.  chat awaits only coroutines that never suspend            *)
(* (invoke_bedrock and execute_dynamodb_query call boto3 synchronously,    *)
(* main.py:352-366, 551-562), so a handler runs from its start to its      *)
(* return with no other handler in between: one handler at a time, cut at  *)
(* its outbound calls.                                                     *)
(***************************************************************************)
MaxTurns == 2

None == "None"
ConvIds == {"c1"}        \* the ids requests name
FreshIds == {"u1"}       \* the ids uuid.uuid4() makes

UserTexts(n) == {<<Txt("question"), NumTok(n)>>}

Directive(rt, content) ==
    JObj(<<Pair(S("response_type"), JStr(S(rt))), Pair(S("content"), content)>>)

Fenced(text) == <<FENCE, Txt("json"), WS>> \o text \o <<WS, FENCE>>

ScanOrders ==
    JObj(<<Pair(S("operation"), JStr(S("Scan"))),
           Pair(S("TableName"), JStr(S("orders"))),
           Pair(S("Bogus"), JStr(S("x")))>>)
BatchGet ==
    JObj(<<Pair(S("operation"), JStr(S("BatchGetItem"))),
           Pair(S("RequestItems"), JObj(<<Pair(S("orders"), JObj(<<>>))>>)),
           Pair(S("ReturnConsumedCapacity"), JStr(S("TOTAL")))>>)
NoTable == JObj(<<Pair(S("operation"), JStr(S("Scan")))>>)
Unsupported ==
    JObj(<<Pair(S("operation"), JStr(S("DeleteItem"))),
           Pair(S("TableName"), JStr(S("orders")))>>)

\* what the oracle may answer, on either call
OracleTexts ==
    { <<WS, Txt("Hi"), WS>>,
      <<WS>> \o Fenced(<<P("{"), Lit(S("content")), P("}")>>),
      Fenced(json_dumps(Directive("NATURAL_LANGUAGE", JStr(S("Hi"))))),
      json_dumps(Directive("NATURAL_LANGUAGE", JObj(<<Pair(S("a"), JNum(1))>>))),
      json_dumps(Directive("NATURAL_LANGUAGE", JNull)),
      json_dumps(JObj(<<Pair(S("response_type"), JStr(S("NATURAL_LANGUAGE")))>>)),
      json_dumps(JObj(<<Pair(S("content"), JNum(3))>>)),
      json_dumps(JObj(<<Pair(S("content"), JList(<<JNum(1)>>))>>)),
      json_dumps(Directive("OTHER", JStr(S("Hi")))),
      json_dumps(Directive("OTHER", JObj(<<Pair(S("a"), JNum(1))>>))),
      json_dumps(Directive("OTHER", JNull)),
      <<P("{"), Lit(S("content")), Lit(S("Hi")), P("}")>>,
      json_dumps(Directive("QUERY", JStr(S("Hi")))),
      json_dumps(Directive("QUERY", JList(<<JNum(1)>>))),
      json_dumps(Directive("QUERY", JNull)),
      json_dumps(Directive("QUERY", JNum(3))),
      json_dumps(Directive("QUERY", JStr(json_dumps(JList(<<JNum(1)>>))))),
      json_dumps(Directive("QUERY", JStr(json_dumps(JNum(3))))),
      Fenced(json_dumps(Directive("QUERY", ScanOrders))),
      json_dumps(Directive("QUERY", JStr(json_dumps(BatchGet)))),
      json_dumps(Directive("QUERY", NoTable)),
      json_dumps(Directive("QUERY", Unsupported)) }

OracleFaults == { Exc("ClientError", S("ThrottlingException")) }

\* the store's answers in the service's turns
TurnResponses ==
    {r \in StoreResponses : Get(r, S("Count"), JNum(0)) \in {JNum(0), JNum(1)}}
TurnFaults == { Exc("ClientError", S("AccessDeniedException")) }

Init ==
    /\ conversations = <<>>
    /\ pc = "idle"
    /\ turn = NoTurn
    /\ last = NoOp
    /\ nturns = 0
    /\ cfg \in [LLM_ANALYZE_RESULTS : BOOLEAN, ENABLE_ERROR_VIEWING : BOOLEAN,
                coerce_numbers : BOOLEAN]
    /\ arg = <<>>
    /\ ret = NotCalled

\* the handler returns: chat's last lines, or its except branch.  last keeps
\* the finished turn t, what process_with_history handed to chat (out), the
\* response sent and the exception chat caught (NoExc when none)
Finish(t, out) ==
    \E f \in {chat_finish(conversations, t.cid, t.user_message, out,
                          cfg.coerce_numbers)} :
        /\ conversations' = f.conversations
        /\ pc' = "idle"
        /\ turn' = NoTurn
        /\ last' = [op |-> "chat", cid |-> t.cid, turn |-> t, out |-> out,
                    response |-> f.response, exc |-> f.exc]
        /\ UNCHANGED <<nturns, cfg, arg, ret>>

\* a chat request taken up whatever the running handler is doing
ChatStart_unserialized ==
    /\ nturns < MaxTurns
    /\ \E request_cid \in ConvIds \cup {None}, message \in UserTexts(nturns + 1) :
       \E cid \in (IF request_cid = None THEN FreshIds \ DOMAIN conversations
                   ELSE {request_cid}) :
       \E existed \in {cid \in DOMAIN conversations} :
       \E pre \in {IF existed THEN conversations[cid] ELSE <<>>} :
       \E user_message \in {Message("user", message, JNull)} :
       \E history \in {Append(pre, user_message)} :
              /\ conversations' = Put(conversations, cid, history)
              /\ turn' = [cid |-> cid, user_message |-> user_message,
                          pre |-> pre, existed |-> existed,
                          prompts |-> <<build_conversation_prompt(history)>>,
                          llm_response |-> <<>>,
                          noracle |-> 1, nstore |-> 0,
                          directive |-> JNull, directive2 |-> JNull,
                          coerced |-> FALSE, generated_query |-> JNull,
                          call |-> NoCall, results |-> JNull,
                          injected |-> FALSE]
    /\ pc' = "oracle1"
    /\ last' = NoOp
    /\ nturns' = nturns + 1
    /\ UNCHANGED <<cfg, arg, ret>>

\* main.py:171-196, 247-254: from the request to the first oracle call
ChatStart ==
    /\ pc = "idle" /\ nturns < MaxTurns
    /\ \E request_cid \in ConvIds \cup {None}, message \in UserTexts(nturns + 1) :
       \E cid \in (IF request_cid = None THEN FreshIds \ DOMAIN conversations
                   ELSE {request_cid}) :
       \E existed \in {cid \in DOMAIN conversations} :
       \E pre \in {IF existed THEN conversations[cid] ELSE <<>>} :
       \E user_message \in {Message("user", message, JNull)} :
       \E history \in {Append(pre, user_message)} :
              /\ conversations' = Put(conversations, cid, history)
              /\ turn' = [cid |-> cid, user_message |-> user_message,
                          pre |-> pre, existed |-> existed,
                          prompts |-> <<build_conversation_prompt(history)>>,
                          llm_response |-> <<>>,
                          noracle |-> 1, nstore |-> 0,
                          directive |-> JNull, directive2 |-> JNull,
                          coerced |-> FALSE, generated_query |-> JNull,
                          call |-> NoCall, results |-> JNull,
                          injected |-> FALSE]
    /\ pc' = "oracle1"
    /\ last' = NoOp
    /\ nturns' = nturns + 1
    /\ UNCHANGED <<cfg, arg, ret>>

\* main.py:254-297, 334-343: the first oracle call returns
Oracle1Return ==
    /\ pc = "oracle1"
    /\ \E llm_response \in OracleTexts :
       \E r \in {first_pass(llm_response, cfg.ENABLE_ERROR_VIEWING)} :
       \E t \in {[turn EXCEPT !.llm_response = llm_response,
                              !.directive = r.directive,
                              !.coerced = r.coerced,
                              !.generated_query = r.generated_query,
                              !.results = r.results]} :
              IF r.out.kind = "store"
              THEN /\ pc' = "store"
                   /\ turn' = [t EXCEPT !.call = r.out.call, !.nstore = 1]
                   /\ UNCHANGED <<conversations, last, nturns, cfg, arg, ret>>
              ELSE Finish(t, r.out)

\* invoke_bedrock raises (main.py:254 or 314); process_with_history re-raises
OracleFail ==
    /\ pc \in {"oracle1", "oracle2"}
    /\ \E e \in OracleFaults : Finish(turn, Raised(e))

\* main.py:566-567, 286-332: the store answers
StoreReturn ==
    /\ pc = "store"
    /\ \E response \in {r \in TurnResponses : Fits(turn.call.method, r)} :
       \E out \in {store_returned(response, turn.generated_query,
                                  cfg.LLM_ANALYZE_RESULTS)} :
       \E t \in {[turn EXCEPT !.results = response]} :
              IF out.kind = "oracle"
              THEN \E history \in {Append(conversations[t.cid],
                                          system_message(response))} :
                       /\ conversations' = Put(conversations, t.cid, history)
                       /\ pc' = "oracle2"
                       /\ turn' = [t EXCEPT
                                     !.injected = TRUE,
                                     !.noracle = 2,
                                     !.prompts =
                                        Append(@, build_conversation_prompt(history))]
                       /\ UNCHANGED <<last, nturns, cfg, arg, ret>>
              ELSE Finish(t, out)

\* main.py:569-594, 286-297: the store raises
StoreFail ==
    /\ pc = "store"
    /\ \E e \in TurnFaults :
       \E out \in {store_raised(e, turn.generated_query,
                                cfg.ENABLE_ERROR_VIEWING)} :
       \E t \in {[turn EXCEPT !.results = out.query_data]} :
          Finish(t, out)

\* main.py:314-332: the second oracle call returns
Oracle2Return ==
    /\ pc = "oracle2"
    /\ \E analysis_response \in OracleTexts :
       \E out \in {second_pass(analysis_response, turn.results,
                               turn.generated_query)} :
       \E t \in {[turn EXCEPT !.directive2 =
                                extract_json_from_response(analysis_response)]} :
          Finish(t, out)

\* a fetch that opens an empty conversation for an unknown id
GetConversation_creating ==
    /\ pc = "idle"
    /\ \E cid \in ConvIds \cup FreshIds :
          /\ last' = [op |-> "get", cid |-> cid, status |-> 200]
          /\ conversations' =
                 IF cid \in DOMAIN conversations THEN conversations
                 ELSE Put(conversations, cid, <<>>)
    /\ UNCHANGED <<pc, turn, nturns, cfg, arg, ret>>

\* get_conversation (main.py:596-607)
GetConversation ==
    /\ pc = "idle"
    /\ \E cid \in ConvIds \cup FreshIds :
          last' = [op |-> "get", cid |-> cid,
                   status |-> IF cid \in DOMAIN conversations THEN 200 ELSE 404]
    /\ UNCHANGED <<conversations, pc, turn, nturns, cfg, arg, ret>>

\* delete_conversation (main.py:609-616)
DeleteConversation ==
    /\ pc = "idle"
    /\ \E cid \in ConvIds \cup FreshIds :
          /\ conversations' = [x \in DOMAIN conversations \ {cid} |-> conversations[x]]
          /\ last' = [op |-> "delete", cid |-> cid, status |-> 200]
    /\ UNCHANGED <<pc, turn, nturns, cfg, arg, ret>>

Next ==
    \/ ChatStart
    \/ Oracle1Return
    \/ OracleFail
    \/ StoreReturn
    \/ StoreFail
    \/ Oracle2Return
    \/ GetConversation
    \/ DeleteConversation

Spec == Init /\ [][Next]_vars

(***************************************************************************)
(* Vocabulary of the properties.                                           *)
(***************************************************************************)
\* a chat call has just returned
ChatDone == last.op = "chat"

\* what the returned call added to its conversation's transcript
Added ==
    SubSeq(conversations[last.cid], Len(last.turn.pre) + 1,
           Len(conversations[last.cid]))

WithRole(msgs, role) == {i \in DOMAIN msgs : msgs[i].role = role}

\* the message the returned call recorded last
AssistantMsg == Added[Len(Added)]

\* the first oracle call of the returned turn came back with a directive
Answered == ChatDone /\ last.turn.directive # JNull

FirstType ==
    Get(last.turn.directive, S("response_type"), JStr(S("NATURAL_LANGUAGE")))
FirstContent == Get(last.turn.directive, S("content"), JNull)

\* a directive's content as text
TextOf(content) == IF IsStr(content) THEN content.v ELSE json_dumps(content)

\* the content is an object, or a string that decodes to an object
Coercible(content) ==
    \/ IsDict(content)
    \/ IsStr(content) /\ json_loads(content.v).ok
                      /\ IsDict(json_loads(content.v).val)

\* the lookup spec a coercible content stands for
SpecOf(content) ==
    IF IsDict(content) THEN content ELSE json_loads(content.v).val

\* the executor handed back a failure envelope / the store's own result
LookupFailed ==
    Answered /\ last.turn.results # JNull /\ HasKey(last.turn.results, S("Error"))
LookupSucceeded ==
    /\ Answered /\ last.turn.nstore = 1
    /\ last.turn.results # JNull /\ ~HasKey(last.turn.results, S("Error"))

\* the store's result with the echo of the oracle's spec
Echoed ==
    DictSet(last.turn.results, S("_generated_query"), SpecOf(FirstContent))

\* C1: every returned chat call, whichever path it took, left the earlier
\* transcript as it was and added exactly one user message and exactly one
\* assistant message to it, the user message first.
C1_TurnSymmetry ==
    ChatDone =>
        /\ last.cid \in DOMAIN conversations
        /\ Len(conversations[last.cid]) >= Len(last.turn.pre)
        /\ SubSeq(conversations[last.cid], 1, Len(last.turn.pre)) = last.turn.pre
        /\ Cardinality(WithRole(Added, "user")) = 1
        /\ Cardinality(WithRole(Added, "assistant")) = 1
        /\ \A u \in WithRole(Added, "user"), a \in WithRole(Added, "assistant") :
              u < a /\ Added[u] = last.turn.user_message

\* a turn whose second oracle call failed, after the store's result was put
\* into the transcript
C1_Witness ==
    /\ ChatDone /\ last.turn.noracle = 2 /\ last.turn.injected
    /\ last.exc \in OracleFaults
    /\ Cardinality(WithRole(Added, "system")) = 1

\* C2: the turn list build_conversation_prompt returns has no two adjacent
\* turns of the same role, whatever the transcript's role sequence.
C2_Alternation ==
    ret.called =>
        \A i \in 1..(Len(ret.val) - 1) : ret.val[i].role # ret.val[i + 1].role

\* the places of the system-context block in a turn list
ContextPlaces(turns) ==
    UNION {{<<i, j>> : j \in {n \in DOMAIN turns[i].content :
                                 turns[i].content[n] = SYSTEM_CONTEXT[1]}} :
           i \in DOMAIN turns}

\* C3: the system-context block is in the composed prompt exactly once, at
\* the start of the first turn, whatever that turn's role.
C3_SingleSystemBlock ==
    ret.called => ContextPlaces(ret.val) = {<<1, 1>>}

\* C4: extract_json_from_response returns a structure with a content field
\* whose value is not null, for every input text.
C4_ContentNotNull ==
    ret.called =>
        /\ IsDict(ret.val)
        /\ HasKey(ret.val, S("content"))
        /\ Get(ret.val, S("content"), JNull) # JNull

\* C5: the only exception process_with_history hands to chat is a failed
\* oracle call, and a lookup that failed is returned as the envelope with
\* Error, Message and _generated_query = the failing spec.
C5_OnlyOracleFaultsEscape ==
    /\ (ChatDone /\ last.out.kind = "raise") => last.out.exc \in OracleFaults
    /\ (Answered /\ FirstType = JStr(S("QUERY")) /\ Coercible(FirstContent)
                 /\ last.turn.noracle = 1 /\ ~LookupSucceeded)
       => /\ last.out.kind = "return"
          /\ HasKey(last.out.query_data, S("Error"))
          /\ HasKey(last.out.query_data, S("Message"))
          /\ Get(last.out.query_data, S("_generated_query"), JNull)
                = SpecOf(FirstContent)

\* C6: a first directive whose response_type is not QUERY ends the turn with
\* no store call and no second oracle call; the assistant message's text is
\* the directive's content, as text when it is structured, and it carries no
\* data.
C6_DirectAnswer ==
    Answered /\ FirstType # JStr(S("QUERY")) =>
        /\ last.turn.nstore = 0
        /\ last.turn.noracle = 1
        /\ AssistantMsg.role = "assistant"
        /\ AssistantMsg.content = TextOf(FirstContent)
        /\ AssistantMsg.data = JNull

\* C7: a QUERY directive whose content is neither an object nor a string
\* that decodes to an object ends the turn with no store call, a fixed
\* apology as the assistant message and no data.
C7_MalformedSpec ==
    Answered /\ FirstType = JStr(S("QUERY")) /\ ~Coercible(FirstContent) =>
        /\ last.turn.nstore = 0
        /\ AssistantMsg.role = "assistant"
        /\ AssistantMsg.content \in {APOLOGY_PARSE, APOLOGY_FORMAT}
        /\ AssistantMsg.data = JNull

\* C8: a lookup that returned a failure envelope ends the turn with no
\* second oracle call and no system message; the assistant message's text is
\* the rephrase apology and its data is the envelope, whose _generated_query
\* is the spec that was attempted.
C8_FailureEnvelope ==
    LookupFailed =>
        /\ last.turn.noracle = 1
        /\ ~last.turn.injected
        /\ WithRole(Added, "system") = {}
        /\ AssistantMsg.role = "assistant"
        /\ AssistantMsg.content = APOLOGY_REPHRASE
        /\ AssistantMsg.data = last.turn.results
        /\ HasKey(AssistantMsg.data, S("Error"))
        /\ HasKey(AssistantMsg.data, S("Message"))
        /\ Get(AssistantMsg.data, S("_generated_query"), JNull)
              = SpecOf(FirstContent)

\* the store raised, with summarization of results switched on
C8_Witness ==
    /\ LookupFailed /\ last.turn.nstore = 1 /\ cfg.LLM_ANALYZE_RESULTS
    /\ AssistantMsg.content = APOLOGY_REPHRASE

\* C9 as stated: after a lookup that succeeded, the assistant message's data
\* is the store's result plus _generated_query = the oracle's original spec,
\* with and without summarization.
C9_EchoAlways ==
    LookupSucceeded => AssistantMsg.data = Echoed

\* C9, amended: after a lookup that succeeded, the assistant message's data
\* is the store's result plus _generated_query = the oracle's original spec
\* when chat recorded the message on its normal path; when the turn ended in
\* chat's except branch (the second oracle call failed, or its content was
\* no text a message takes) the assistant message carries no data.
C9_EchoOnNormalPath ==
    LookupSucceeded =>
        /\ AssistantMsg.role = "assistant"
        /\ IF last.exc = NoExc
           THEN AssistantMsg.data = Echoed
           ELSE /\ AssistantMsg.data = JNull
                /\ cfg.LLM_ANALYZE_RESULTS
                /\ last.turn.noracle = 2

\* a summarized turn whose spec had a field the allow-list drops
C9_Witness ==
    /\ LookupSucceeded /\ last.exc = NoExc /\ last.turn.noracle = 2
    /\ HasKey(SpecOf(FirstContent), S("Bogus"))
    /\ ~HasKey(last.turn.call.kwargs, S("Bogus"))
    /\ AssistantMsg.data = Echoed

\* the spec with only its operation and its allow-listed fields
AllowedOnly(query) ==
    JObj(FilterPairs(query.v, 1,
            VALID_PARAMS(Get(query, S("operation"), JStr(S("Query"))))
               \cup {S("operation")}))

\* execute_dynamodb_query returned without calling the store
FailedLocally == ret.called /\ turn = NoTurn

\* C10: every field passed to the store is a field of the spec on the
\* operation's allow-list, operation itself is never passed, and the spec
\* fails before the store exactly when it fails with its other fields
\* taken away.
C10_AllowList ==
    /\ pc = "store" =>
          /\ Keys(turn.call.kwargs)
                \subseteq VALID_PARAMS(Get(arg, S("operation"), JStr(S("Query"))))
          /\ S("operation") \notin Keys(turn.call.kwargs)
          /\ \A i \in DOMAIN turn.call.kwargs.v :
                \E j \in DOMAIN arg.v : arg.v[j] = turn.call.kwargs.v[i]
    /\ (pc = "store" \/ ret.called) =>
          (FailedLocally <=> exec_prepare(AllowedOnly(arg)).raised)

\* a Scan with a field outside its allow-list, on its way to the store
C10_Witness ==
    /\ pc = "store"
    /\ Get(arg, S("operation"), JNull) = JStr(S("Scan"))
    /\ HasKey(arg, S("Bogus"))
    /\ turn.call.method = "scan"
    /\ ~HasKey(turn.call.kwargs, S("Bogus"))

\* the operation a spec names (Query when it names none)
OperationOf(query) == Get(query, S("operation"), JStr(S("Query")))

FourKinds ==
    {JStr(S("Query")), JStr(S("Scan")), JStr(S("GetItem")), JStr(S("BatchGetItem"))}

\* TableName absent, null or empty
LacksTable(query) ==
    \/ ~HasKey(query, S("TableName"))
    \/ Get(query, S("TableName"), JNull) \in {JNull, JStr(<<>>)}

\* C11: a spec with no table name and an operation other than BatchGetItem
\* never reaches the store and comes back as the failure envelope; a
\* BatchGetItem spec without a table name fails before the store only for
\* lacking RequestItems.
C11_TableRequired ==
    /\ (LacksTable(arg) /\ OperationOf(arg) # JStr(S("BatchGetItem"))) =>
          /\ pc # "store"
          /\ ret.called =>
                /\ FailedLocally
                /\ Get(ret.val, S("Error"), JNull)
                      = JStr(S("TableName is required in query"))
                /\ HasKey(ret.val, S("Message"))
                /\ Get(ret.val, S("_generated_query"), JNull) = arg
    /\ (LacksTable(arg) /\ OperationOf(arg) = JStr(S("BatchGetItem"))) =>
          /\ (HasKey(arg, S("RequestItems")) /\ ret.called) => ~FailedLocally
          /\ FailedLocally =>
                /\ ~HasKey(arg, S("RequestItems"))
                /\ Get(ret.val, S("Error"), JNull)
                      = JStr(S("BatchGetItem requires RequestItems"))

\* a Scan with an empty table name, turned back before the store
C11_Witness ==
    /\ FailedLocally
    /\ OperationOf(arg) = JStr(S("Scan"))
    /\ Get(arg, S("TableName"), JNull) = JStr(<<>>)
    /\ HasKey(ret.val, S("Error"))

\* C12: a spec whose operation is none of Query, Scan, GetItem, BatchGetItem
\* makes no store call; the executor returns the failure envelope, and the
\* turn ends as for a store failure: rephrase apology, envelope attached.
C12_UnsupportedOperation ==
    (/\ Answered /\ FirstType = JStr(S("QUERY")) /\ Coercible(FirstContent)
     /\ OperationOf(SpecOf(FirstContent)) \notin FourKinds) =>
        /\ last.turn.nstore = 0
        /\ last.turn.noracle = 1
        /\ last.out.kind = "return"
        /\ last.exc = NoExc
        /\ AssistantMsg.role = "assistant"
        /\ AssistantMsg.content = APOLOGY_REPHRASE
        /\ AssistantMsg.data = last.out.query_data
        /\ HasKey(AssistantMsg.data, S("Error"))
        /\ HasKey(AssistantMsg.data, S("Message"))
        /\ Get(AssistantMsg.data, S("_generated_query"), JNull)
              = SpecOf(FirstContent)

\* a DeleteItem spec with a table name
C12_Witness ==
    /\ Answered /\ FirstType = JStr(S("QUERY")) /\ Coercible(FirstContent)
    /\ OperationOf(SpecOf(FirstContent)) = JStr(S("DeleteItem"))
    /\ ~LacksTable(SpecOf(FirstContent))
    /\ AssistantMsg.content = APOLOGY_REPHRASE

\* the text chat's except branch makes of an exception
ErrorText(e) == ERROR_PREFIX \o e.msg

\* the recorded messages that carry an error text
ErrorMessages(msgs) ==
    {i \in DOMAIN msgs :
        /\ msgs[i].role = "assistant"
        /\ Len(msgs[i].content) >= Len(ERROR_PREFIX)
        /\ SubSeq(msgs[i].content, 1, Len(ERROR_PREFIX)) = ERROR_PREFIX}

\* C13: when an oracle call fails, chat returns the error text as its
\* response; the turn's user message stays in the transcript and an
\* assistant message with the error text is appended last; the next turn
\* on the conversation composes its prompt from the transcript with the
\* failed turn in it.
C13_OracleFailureRecorded ==
    /\ (ChatDone /\ last.out.kind = "raise" /\ last.out.exc \in OracleFaults) =>
          /\ last.exc = last.out.exc
          /\ last.response = ErrorText(last.out.exc)
          /\ Len(Added) >= 2
          /\ Added[1] = last.turn.user_message
          /\ AssistantMsg = Message("assistant", ErrorText(last.out.exc), JNull)
    /\ pc = "oracle1" =>
          /\ conversations[turn.cid] = Append(turn.pre, turn.user_message)
          /\ turn.prompts = <<build_conversation_prompt(conversations[turn.cid])>>
          /\ \A i \in ErrorMessages(turn.pre) :
                \E j \in DOMAIN turn.prompts[1] :
                    turn.prompts[1][j] = PromptTurn("assistant", turn.pre[i].content)

\* a turn that starts on a conversation whose earlier turn lost its oracle
C13_Witness ==
    /\ pc = "oracle1"
    /\ \E i \in ErrorMessages(turn.pre), e \in OracleFaults :
          /\ turn.pre[i].content = ErrorText(e)
          /\ i > 1 /\ turn.pre[i - 1].role \in {"user", "system"}

\* the user messages of a transcript no assistant message follows
OpenTurns(msgs) ==
    {i \in WithRole(msgs, "user") :
        \A k \in WithRole(msgs, "assistant") : k < i}

\* C14 as stated: nothing serializes two turns, so while a turn is between
\* its user append and its assistant append another turn can start.
C14_SecondTurnMayStart ==
    (pc \in {"oracle1", "store", "oracle2"} /\ nturns < MaxTurns) =>
        ENABLED ChatStart

\* C14, amended: chat takes no lock, but between its user append and its
\* assistant append it never gives up the event loop, so turns run one
\* after the other: in every transcript an assistant message stands
\* between any two user messages, and a user message that no assistant
\* message follows belongs to the one running turn.
C14_TurnsSerialized ==
    \A cid \in DOMAIN conversations :
        /\ \A i, j \in WithRole(conversations[cid], "user") :
              i < j => \E k \in WithRole(conversations[cid], "assistant") :
                          i < k /\ k < j
        /\ OpenTurns(conversations[cid]) # {} =>
              /\ pc # "idle"
              /\ turn.cid = cid
              /\ OpenTurns(conversations[cid]) = {Len(turn.pre) + 1}

\* a second turn on a conversation, waiting on the oracle, the first turn
\* complete before it
C14_Witness ==
    /\ pc = "oracle1" /\ nturns = 2 /\ turn.existed
    /\ Len(turn.pre) >= 2
    /\ OpenTurns(conversations[turn.cid]) = {Len(turn.pre) + 1}

\* the turn that is running and the turn that has just returned
TurnsSeen ==
    (IF pc # "idle" THEN {turn} ELSE {}) \cup (IF ChatDone THEN {last.turn} ELSE {})

\* C15: a turn makes at most two oracle calls and at most one store call;
\* the store call comes only after the first oracle call returned a QUERY
\* directive, the second oracle call only after the store returned a
\* success and only with summarization switched on.
C15_CallOrder ==
    /\ \A t \in TurnsSeen :
          /\ t.noracle \in {1, 2}
          /\ t.nstore \in {0, 1}
          /\ Len(t.prompts) = t.noracle
          /\ t.nstore = 1 =>
                /\ t.directive # JNull
                /\ Get(t.directive, S("response_type"), JNull) = JStr(S("QUERY"))
                /\ t.call.method \in {"query", "scan", "get_item", "batch_get_item"}
          /\ t.nstore = 0 => t.call = NoCall
          /\ t.noracle = 2 =>
                /\ t.nstore = 1
                /\ t.results # JNull /\ ~HasKey(t.results, S("Error"))
                /\ cfg.LLM_ANALYZE_RESULTS
    /\ pc = "oracle1" =>
          turn.noracle = 1 /\ turn.nstore = 0 /\ turn.directive = JNull
    /\ pc = "store" =>
          turn.noracle = 1 /\ turn.nstore = 1 /\ turn.results = JNull
    /\ pc = "oracle2" =>
          turn.noracle = 2 /\ turn.nstore = 1 /\ turn.directive2 = JNull

\* a turn that made all three calls and returned
C15_Witness ==
    /\ ChatDone /\ last.exc = NoExc
    /\ last.turn.noracle = 2 /\ last.turn.nstore = 1
    /\ last.turn.directive2 # JNull

\* the content of the second directive of the returned turn
SecondContent == Get(last.turn.directive2, S("content"), JNull)

\* the roles of a transcript, in order
RolesOf(msgs) == [i \in DOMAIN msgs |-> msgs[i].role]

\* C16: on lookup success with summarization on, the lookup result is in the
\* transcript as a system message before the second oracle call, the second
\* prompt is composed from the transcript that holds it, the final assistant
\* text is the content of the second directive, and the turn's transcript
\* reads user, system, assistant.
C16_SummaryIsSecondContent ==
    /\ pc = "oracle2" =>
          /\ conversations[turn.cid] =
                 turn.pre \o <<turn.user_message, system_message(turn.results)>>
          /\ turn.prompts[2] = build_conversation_prompt(conversations[turn.cid])
    /\ (ChatDone /\ last.turn.noracle = 2 /\ last.turn.directive2 # JNull) =>
          /\ RolesOf(Added) = <<"user", "system", "assistant">>
          /\ Added[2] = system_message(last.turn.results)
          /\ IsStr(SecondContent)
          /\ AssistantMsg.content = SecondContent.v
          /\ last.response = SecondContent.v

\* the conversations that exist
Existing == DOMAIN conversations

\* C17: a conversation exists exactly when a chat turn has referenced its
\* id since its last deletion: the start of a chat turn adds its id (with
\* the user message alone when the id was unseen) and no other, a fetch
\* changes nothing and reports not-found exactly for an id that does not
\* exist, a delete succeeds and removes its id and nothing else, and no other
\* step adds or removes a conversation.
C17_ExistsIffReferenced ==
    [][ /\ (pc = "idle" /\ pc' = "oracle1") =>
              /\ Existing' = Existing \cup {turn'.cid}
              /\ turn'.cid \notin Existing =>
                    conversations'[turn'.cid] = <<turn'.user_message>>
              /\ \A x \in Existing \ {turn'.cid} :
                    conversations'[x] = conversations[x]
        /\ pc # "idle" => Existing' = Existing
        /\ (pc = "idle" /\ pc' = "idle") => last'.op \in {"get", "delete"}
        /\ (pc = "idle" /\ pc' = "idle" /\ last'.op = "get") =>
              /\ conversations' = conversations
              /\ last'.status = (IF last'.cid \in Existing THEN 200 ELSE 404)
        /\ (pc = "idle" /\ pc' = "idle" /\ last'.op = "delete") =>
              /\ Existing' = Existing \ {last'.cid}
              /\ last'.status = 200
              /\ \A x \in Existing' : conversations'[x] = conversations[x]
      ]_vars

\* a conversation a turn created is deleted, another is still there, and a
\* fetch of the deleted one has reported not-found
C17_Witness ==
    /\ nturns = 2
    /\ last.op = "get" /\ last.status = 404 /\ last.cid = "c1"
    /\ Existing = {"u1"}

IsPrefix(a, b) == Len(a) <= Len(b) /\ SubSeq(b, 1, Len(a)) = a

\* C18: between deletions a transcript is append-only: every step of a chat
\* turn and every fetch leaves each conversation's earlier transcript as a
\* prefix of its later one, so no message is reordered, changed, removed or
\* deduplicated.
C18_AppendOnly ==
    [][ \A cid \in Existing \cap Existing' :
            IsPrefix(conversations[cid], conversations'[cid]) ]_vars

\* a conversation that has grown over two turns, one of them with a lookup
\* result in it, and has then been fetched
C18_Witness ==
    /\ last.op = "get" /\ last.status = 200
    /\ Len(conversations[last.cid]) >= 5
    /\ WithRole(conversations[last.cid], "system") # {}

\* the turns the loop of build_conversation_prompt holds after the first n
\* messages of the history
TurnsAfter(history, n) == PromptLoop(SubSeq(history, 1, n), 1, <<>>)

\* C19: build_conversation_prompt folds every system message into a user
\* turn under the [SYSTEM INFO] marker: onto the end of the most recent turn
\* when that is a user turn, as a new user turn holding the marked content
\* alone when it is an assistant turn, and behind the system-context block in
\* a new user turn when there is no turn yet; and no emitted turn has a role
\* other than user or assistant.
C19_SystemFolded ==
    ret.called =>
        /\ \A j \in DOMAIN ret.val : ret.val[j].role \in {"user", "assistant"}
        /\ arg # <<>> => ret.val = TurnsAfter(arg, Len(arg))
        /\ \A i \in DOMAIN arg :
              arg[i].role = "system" =>
                 LET before == TurnsAfter(arg, i - 1)
                     after  == TurnsAfter(arg, i)
                     marked == <<Txt("[SYSTEM INFO]"), WS>> \o arg[i].content
                     n      == Len(before)
                 IN  /\ n = 0 =>
                           after = <<PromptTurn("user",
                                       SYSTEM_CONTEXT \o <<WS>> \o marked)>>
                     /\ (n > 0 /\ before[n].role = "assistant") =>
                           after = Append(before, PromptTurn("user", marked))
                     /\ (n > 0 /\ before[n].role = "user") =>
                           /\ Len(after) = n
                           /\ \A j \in 1..(n - 1) : after[j] = before[j]
                           /\ after[n] =
                                 PromptTurn("user",
                                     before[n].content \o <<WS>> \o marked)

\* a composed history in which a system message met each case: no turn yet,
\* an assistant turn last, a user turn last
C19_Witness ==
    /\ ret.called
    /\ RolesOf(arg) = <<"system", "assistant", "system", "system">>
    /\ Len(ret.val) = 3

\* the number of results a store response carries: its Count, or the items
\* it holds when the method reports no Count
RECURSIVE SumLen(_, _)
SumLen(prs, i) ==
    IF i > Len(prs) THEN 0 ELSE Len(prs[i].val.v) + SumLen(prs, i + 1)

ResultsReturned(response) ==
    IF HasKey(response, S("Count")) THEN Get(response, S("Count"), JNum(0)).n
    ELSE IF HasKey(response, S("Item")) THEN 1
    ELSE IF HasKey(response, S("Responses"))
    THEN SumLen(Get(response, S("Responses"), JObj(<<>>)).v, 1)
    ELSE 0

\* C20: on lookup success with summarization off the turn makes one oracle
\* call, adds the user and the assistant message and no system message, and
\* the assistant text is the fixed sentence with the number of results the
\* lookup returned, "result" in the singular exactly when that number is 1.
C20_StaticSentence ==
    (LookupSucceeded /\ ~cfg.LLM_ANALYZE_RESULTS) =>
        /\ last.turn.noracle = 1
        /\ RolesOf(Added) = <<"user", "assistant">>
        /\ AssistantMsg.content =
              <<Txt("Query executed successfully. Found"), WS,
                NumTok(ResultsReturned(last.turn.results)), WS,
                Txt(IF ResultsReturned(last.turn.results) = 1
                    THEN "result." ELSE "results.")>>

\* the raw text of the first oracle answer of the returned turn
FirstText == last.turn.llm_response

\* the text holds no object span, or the span it holds does not parse
FellBack(text) ==
    \/ FencedMatches(text) = {} /\ ~RawMatch(text)
    \/ FencedMatches(text) # {} /\ ~json_loads(FencedGroup(text)).ok
    \/ FencedMatches(text) = {} /\ RawMatch(text) /\ ~json_loads(RawGroup(text)).ok

\* C21: when the oracle's text holds no brace-delimited object, or the span
\* taken from it does not parse, the directive is exactly
\* {response_type: NATURAL_LANGUAGE, content: the whole text trimmed} and the
\* turn returns that text as its answer with no lookup.
C21_FallbackIsAnswer ==
    (Answered /\ FellBack(FirstText)) =>
        /\ last.turn.directive =
              JObj(<<Pair(S("response_type"), JStr(S("NATURAL_LANGUAGE"))),
                     Pair(S("content"), JStr(strip(FirstText)))>>)
        /\ last.turn.nstore = 0 /\ last.turn.noracle = 1
        /\ last.turn.call = NoCall
        /\ last.exc = NoExc
        /\ last.response = strip(FirstText)
        /\ RolesOf(Added) = <<"user", "assistant">>
        /\ AssistantMsg.content = strip(FirstText)
        /\ AssistantMsg.data = JNull

\* a fenced span that does not parse, in a text with white space to trim
C21_Witness ==
    /\ Answered
    /\ FencedMatches(FirstText) # {} /\ ~json_loads(FencedGroup(FirstText)).ok
    /\ strip(FirstText) # FirstText
    /\ last.response = strip(FirstText)

\* a prompt the oracle accepts: user and assistant turns in strict
\* alternation, a user turn first that opens with the system context, a
\* user turn last
WellFormedPrompt(messages) ==
    /\ Len(messages) % 2 = 1
    /\ \A i \in DOMAIN messages :
          messages[i].role = (IF i % 2 = 1 THEN "user" ELSE "assistant")
    /\ messages[1].content # <<>>
    /\ messages[1].content[1] = SYSTEM_CONTEXT[1]

\* C22: with turns that do not overlap, whatever paths they take, every
\* prompt composed for the oracle alternates user and assistant strictly,
\* starts with a user turn that opens with the system-context block and ends
\* with a user turn.
C22_PromptsWellFormed ==
    \A t \in TurnsSeen :
        \A k \in DOMAIN t.prompts : WellFormedPrompt(t.prompts[k])

\* the second prompt of a second turn on a conversation whose first turn
\* left a lookup result in the transcript
C22_Witness ==
    /\ pc = "oracle2" /\ turn.existed
    /\ WithRole(turn.pre, "system") # {}
    /\ Len(turn.prompts) = 2
    /\ Len(turn.prompts[2]) >= 3

\* the fields of a dict, as a set of pairs
Fields(d) == {d.v[i] : i \in DOMAIN d.v}

\* the fields of a spec that are on its operation's allow-list
AllowedFields(query) ==
    {f \in Fields(query) :
        f.key \in VALID_PARAMS(Get(query, S("operation"), JStr(S("Query"))))}

\* C25: for each of the four operation kinds the fields passed to the store
\* are the spec's fields on that kind's allow-list, each with its value:
\* the dispatched field map is the spec restricted to the allow-list.
C25_AllowedFieldsPassed ==
    pc = "store" => Fields(turn.call.kwargs) = AllowedFields(arg)

\* sub stands in text as one piece
Contains(text, sub) ==
    \E k \in 0..(Len(text) - Len(sub)) : SubSeq(text, k + 1, k + Len(sub)) = sub

\* the second oracle call of the returned turn raised
SecondCallFailed ==
    ChatDone /\ last.turn.noracle = 2 /\ last.out.kind = "raise"

\* C26: when the second oracle call fails, the injected lookup result stays
\* in the transcript: the turn leaves user, system, assistant with the error
\* text, the assistant message carries no lookup result, and the prompt of
\* the next turn holds the injected lookup result.
C26_InjectionNotRolledBack ==
    /\ SecondCallFailed =>
          /\ RolesOf(Added) = <<"user", "system", "assistant">>
          /\ Added[1] = last.turn.user_message
          /\ Added[2] = system_message(last.turn.results)
          /\ AssistantMsg.content = ERROR_PREFIX \o last.out.exc.msg
          /\ AssistantMsg.data = JNull
          /\ last.response = AssistantMsg.content
    /\ pc # "idle" =>
          \A i \in WithRole(turn.pre, "system") :
              \E j \in DOMAIN turn.prompts[1] :
                  /\ turn.prompts[1][j].role = "user"
                  /\ Contains(turn.prompts[1][j].content,
                              <<Txt("[SYSTEM INFO]"), WS>> \o turn.pre[i].content)

\* a turn whose second oracle call failed has returned
C26_Witness ==
    /\ SecondCallFailed
    /\ Len(Added) = 3 /\ Added[2].role = "system"
    /\ last.exc = last.out.exc

=============================================================================
